---------------------------- MODULE Spec2Model ----------------------------
(***************************************************************************)
(* State-machine model of src/src/migration_pipeline.py:                   *)
(* CloudMigrationPipeline (watermark log, extract, transform, load,        *)
(* migrate_table) with the source tables and the bronze destination it     *)
(* reads and writes.                                                       *)
(*                                                                         *)
(* Timestamps are naturals: 0 is datetime(1900, 1, 1), and TicksPerDay     *)
(* consecutive values share one calendar date.  The watermark file is      *)
(* modelled at the level of the text it holds: a sequence of lines, each   *)
(* a sequence of tokens (table name, '=', ISO timestamp, or the truncated  *)
(* pieces a failed write leaves behind), plus the unterminated tail.       *)
(***************************************************************************)
EXTENDS Integers, Sequences, FiniteSets, TLC

\* ------------------------------------------------------------- bounds
MaxTs == 2          \* greatest LastModified value a source row takes
TicksPerDay == 2    \* timestamps per calendar date
MaxRuns == 2        \* migrate_table calls per behaviour
MaxDay == 2         \* calendar dates datetime.now() can give
MaxKey == 2          \* business keys 1 .. MaxKey
MaxRows == 2         \* rows of a frame given to a validator
MaxSeed == 1         \* hash seeds 0 .. MaxSeed an interpreter can draw
MaxCalls == 2        \* validator calls per behaviour
MaxCount == 1        \* row counts 0 .. MaxCount

Tables == {"A", "B"}
Ts == 0 .. MaxTs
\* Table A receives rows while the pipeline runs; table B holds one row
\* throughout (it is there to share the watermark file with A).
Growing == {"A"}
Days == 1 .. MaxDay

\* datetime(1900, 1, 1): the sentinel of get_watermark
Sentinel == 0
\* get_watermark raising ValueError is the result Raised
Raised == -1
\* pandas NaT: the max() of an empty datetime column
NaT == -2

VARIABLES
    source,      \* source[t]: LastModified values of the rows of table t
    wmFile,      \* migration_watermark.txt: [exists, lines, tail]
    dest,        \* dest[t][d]: bronze/<t>/<date d>/<t>.parquet
    pc,          \* pc[t]: where migrate_table(t) stands
    incr,        \* incr[t]: the run's incremental argument
    conn,        \* conn[t]: "none", "open" or "closed"
    df,          \* df[t]: the extracted batch (LastModified values)
    dfCols,      \* dfCols[t]: df.columns
    result,      \* result[t]: "none", "ok" (returned) or "raised"
    \* ---- history (observers; the code does not read them)
    failed,      \* failed[t]: the stage that raised in this run, or "none"
    closes,      \* closes[t]: conn.close() calls of this run
    logAtStart,  \* logAtStart[t]: wmFile when this run started
    destAtStart, \* destAtStart[t]: dest when this run started
    seen,        \* seen[t]: source[t] as this run's query saw it
    lastDone,    \* lastDone[t]: mode and seen of the last run that returned
    loadedRows,  \* loadedRows[t]: rows of every batch load_to_adls wrote
    sets,        \* sets[t]: values of the completed update_watermark calls, in order
    runs         \* calls made so far (migrate_table, or update_watermark
                 \* when the store is driven alone)

pipeVars == <<source, wmFile, dest, pc, incr, conn, df, dfCols, result,
              failed, closes, logAtStart, destAtStart, seen, lastDone,
              loadedRows, sets, runs>>

VARIABLES
    sourceDf,    \* the source_df object the validating process holds
    targetDf,    \* the target_df object it holds
    hashSeed,    \* the hash seed of the running interpreter
    returned,    \* the last validator call and what it returned
    calls,       \* validator calls made so far
    \* ---- history
    givenSource, \* the source frame as it was read
    givenTarget, \* the target frame as it was read
    prints       \* (row, fingerprint) pairs validate_checksum computed

valVars == <<sourceDf, targetDf, hashSeed, returned, calls, givenSource,
             givenTarget, prints>>

vars == <<pipeVars, valVars>>

\* ------------------------------------------------------------- helpers
RECURSIVE SetMax(_)
SetMax(S) ==
    IF S = {} THEN NaT
    ELSE LET x == CHOOSE y \in S : TRUE
             m == SetMax(S \ {x})
         IN IF m > x THEN m ELSE x

\* ------------------------------------------------------ watermark file
\* The pieces of text a line of the file is made of.
Name(t) == [k |-> "name", t |-> t, v |-> 0]     \* a whole table name
Frag(t) == [k |-> "frag", t |-> t, v |-> 0]     \* a proper prefix of one
Eq == [k |-> "eq", t |-> "", v |-> 0]           \* the '=' character
Stamp(v) == [k |-> "ts", t |-> "", v |-> v]     \* YYYY-MM-DDTHH:MM:SS
DateOf(v) == [k |-> "date", t |-> "", v |-> v]  \* YYYY-MM-DD alone
Cut(v) == [k |-> "cut", t |-> "", v |-> v]      \* any other piece of a stamp

\* datetime.isoformat(); NaT.isoformat() is the text 'NaT'
IsoFormat(v) == IF v = NaT THEN Cut(v) ELSE Stamp(v)

\* The first instant of the calendar date of v.
Midnight(v) == (v \div TicksPerDay) * TicksPerDay

\* datetime.fromisoformat() of the text after '=': a whole stamp gives its
\* value, a date alone gives midnight of that date, anything else raises.
FromIsoFormat(val) ==
    IF Len(val) # 1 THEN Raised
    ELSE IF val[1].k = "ts" THEN val[1].v
    ELSE IF val[1].k = "date" THEN Midnight(val[1].v)
    ELSE Raised

\* the default '1900-01-01' of watermarks.get(table_name, '1900-01-01')
DefaultText == <<DateOf(Sentinel)>>

\* f"{table_name}={new_watermark.isoformat()}" (the record without its newline)
Record(t, v) == <<Name(t), Eq, IsoFormat(v)>>

\* What a call of update_watermark can leave in the file:
\*   "ok"     the whole record and its newline
\*   "noopen" open() raised: nothing, the file is not even created
\*   "frag"   the write stops inside the table name
\*   "cut"    the write stops inside the timestamp
\*   "date"   the write stops right after the date
\*   "nonl"   the write stops before the newline
Outcomes == {"ok", "noopen", "frag", "cut", "date", "nonl"}

Written(t, v, o) ==
    CASE o = "frag" -> <<Frag(t)>>
      [] o = "cut"  -> <<Name(t), Eq, Cut(v)>>
      [] o = "date" -> <<Name(t), Eq, IF v = NaT THEN Cut(v) ELSE DateOf(v)>>
      [] o \in {"ok", "nonl"} -> Record(t, v)
      [] OTHER -> <<>>

\* open(watermark_file, 'a+') and f.write(...): text is appended after
\* whatever the file ends with; only a completed write ends the line.
AppendToFile(f, t, v, o) ==
    IF o = "noopen" THEN f
    ELSE IF o = "ok"
        THEN [exists |-> TRUE,
              lines |-> Append(f.lines, f.tail \o Written(t, v, o)),
              tail |-> <<>>]
        ELSE [exists |-> TRUE,
              lines |-> f.lines,
              tail |-> f.tail \o Written(t, v, o)]

\* `for line in f`: the complete lines, then the unterminated tail if any
FileLines(f) == IF f.tail = <<>> THEN f.lines ELSE Append(f.lines, f.tail)

\* positions of '=' in a line
EqAt(line) == {i \in 1 .. Len(line) : line[i].k = "eq"}

\* dict(...) accepts a line only if split('=') gives exactly two parts
WellFormed(line) == Cardinality(EqAt(line)) = 1

KeyOf(line) == SubSeq(line, 1, (CHOOSE i \in EqAt(line) : TRUE) - 1)
ValOf(line) == SubSeq(line, (CHOOSE i \in EqAt(line) : TRUE) + 1, Len(line))

\* get_watermark(table_name) on file f: the sentinel when the file is
\* missing; ValueError when dict() meets a line it cannot split in two or
\* fromisoformat() cannot parse the value; else the value of the last line
\* whose key is table_name, or the default.
GetWatermarkOf(f, t) ==
    IF ~f.exists THEN Sentinel
    ELSE LET ls == FileLines(f)
             hits == {i \in 1 .. Len(ls) : KeyOf(ls[i]) = <<Name(t)>>}
         IN IF \E i \in 1 .. Len(ls) : ~WellFormed(ls[i]) THEN Raised
            ELSE IF hits = {} THEN FromIsoFormat(DefaultText)
            ELSE FromIsoFormat(ValOf(ls[CHOOSE i \in hits : \A j \in hits : j <= i]))

GetWatermark(t) == GetWatermarkOf(wmFile, t)

EmptyFile == [exists |-> FALSE, lines |-> <<>>, tail |-> <<>>]

\* ------------------------------------------------------------- source
\* The columns SELECT * returns, as the source declares them.  The query's
\* `WHERE LastModified > ?` resolves on either spelling (SQL Server names
\* are case-insensitive).
TableColumns(t) ==
    IF t = "A" THEN {"Id", "LastModified"} ELSE {"ID", "LASTMODIFIED"}

\* str.lower().replace(' ', '_').replace(r'[^\w]', '') on the names above
SnakeCase(c) ==
    CASE c \in {"Id", "ID"} -> "id"
      [] c \in {"LastModified", "LASTMODIFIED"} -> "lastmodified"
      [] OTHER -> c

MetadataColumns ==
    {"_ingestion_timestamp", "_source_system", "_migration_batch_id"}

\* transform_for_synapse assigns df.columns in place and returns df itself
TransformColumns(cols) == {SnakeCase(c) : c \in cols} \cup MetadataColumns

\* (mutant) the query keeps the rows at the watermark: `LastModified >= ?`
ExtractDataFromWatermark(t) ==
    IF incr[t]
        THEN {r \in source[t] : r >= GetWatermark(t)}
        ELSE source[t]

\* extract_data: the rows the query returns
ExtractData(t) ==
    IF incr[t]
        THEN {r \in source[t] : r > GetWatermark(t)}
        ELSE source[t]

\* (mutant) the early return on an empty batch is missing
IsEmptyBatchNever(t) == FALSE

\* `if len(df) == 0`
IsEmptyBatch(t) == df[t] = {}

\* (mutant) the watermark is advanced in full mode too
ShouldAdvanceAnyMode(t) == "lastmodified" \in dfCols[t]

\* `if incremental and 'lastmodified' in df.columns`
ShouldAdvance(t) == incr[t] /\ "lastmodified" \in dfCols[t]

\* (mutant) the connection is closed at the end of the try block only
ShouldCloseOnSuccess(t) == conn[t] = "open" /\ result[t] = "ok"

\* `if conn:` in the finally block
ShouldClose(t) == conn[t] = "open"

\* ------------------------------------------------------- destination
Absent == [state |-> "absent", rows |-> {}]
Parquet(rows) == [state |-> "written", rows |-> rows]
Broken == [state |-> "broken", rows |-> {}]

\* ------------------------------------------------- data_validation.py
Unknown == -1         \* a detail the call did not give
\* A DataFrame is its column names in order and its rows in order, a row
\* being one cell per column.  A cell is an integer, a string, a null, or a
\* checksum that validate_checksum stored (the integer hash() returned, kept
\* here as the structure it was computed from).
IntCell(n) == [ty |-> "int", n |-> n, s |-> "", h |-> <<>>]
StrCell(s) == [ty |-> "str", n |-> 0, s |-> s, h |-> <<>>]
HashCell(h) == [ty |-> "hash", n |-> 0, s |-> "", h |-> h]
NullCell == [ty |-> "null", n |-> 0, s |-> "", h |-> <<>>]

KeyColumn == "id"
DataColumns == <<"id", "val">>
Keys == {IntCell(k) : k \in 1 .. MaxKey}
Values == {IntCell(-2), IntCell(-1), StrCell("x")}
Seeds == 0 .. MaxSeed

Frame(cols, rows) == [cols |-> cols, rows |-> rows]
EmptyFrame == Frame(DataColumns, <<>>)

\* the frames a caller passes: 1 .. MaxRows rows of (id, val), ids unique
RowsOver(vals) == {<<k, v>> : k \in Keys, v \in vals}
FramesOver(vals) ==
    {Frame(DataColumns, rows) :
        rows \in {r \in UNION {[1 .. n -> RowsOver(vals)] : n \in 1 .. MaxRows} :
                    \A i, j \in DOMAIN r : r[i][1] = r[j][1] => i = j}}

\* position of column c in cols, 0 when the frame has no such column
ColumnIndex(cols, c) ==
    IF \E i \in 1 .. Len(cols) : cols[i] = c
       THEN CHOOSE i \in 1 .. Len(cols) : cols[i] = c
       ELSE 0

\* hash(s) of a str: keyed by the interpreter's hash seed (PYTHONHASHSEED,
\* random per process by default); different strings and different seeds
\* give different values
StrBase == 100
StrCode(s) == IF s = "x" THEN 1 ELSE 2
StrHash(s, seed) == StrBase * (seed + 1) + StrCode(s)

\* hash(n) of an int of small magnitude is n, except that hash(-1) is -2
IntHash(n) == IF n = -1 THEN -2 ELSE n

\* hash() of one cell; a stored checksum is an int and hashes to itself
PyHash(c, seed) ==
    CASE c.ty = "int" -> <<IntHash(c.n)>>
      [] c.ty = "str" -> <<StrHash(c.s, seed)>>
      [] c.ty = "hash" -> c.h

\* hash(tuple): mixes the hashes of the elements, in order, and nothing else;
\* kept as the bracketed list of the element hashes, which differs whenever
\* the element hashes or their number differ
TupleOpen == 9001
TupleClose == 9002
RECURSIVE Flatten(_)
Flatten(hs) == IF hs = <<>> THEN <<>> ELSE Head(hs) \o Flatten(Tail(hs))
TupleHash(hs) == <<TupleOpen>> \o Flatten(hs) \o <<TupleClose>>

\* lambda row: hash(tuple(row.values))
RowHash(row, seed) ==
    TupleHash([i \in 1 .. Len(row) |-> PyHash(row[i], seed)])

\* df['checksum'] = df.apply(lambda row: hash(tuple(row.values)), axis=1):
\* computed over every column the frame has at that moment, then stored in
\* the frame as column 'checksum' (appended, or replacing that column)
WithChecksum(f, seed) ==
    LET at == ColumnIndex(f.cols, "checksum")
        sum(i) == HashCell(RowHash(f.rows[i], seed))
    IN IF at = 0
          THEN Frame(Append(f.cols, "checksum"),
                     [i \in 1 .. Len(f.rows) |-> Append(f.rows[i], sum(i))])
          ELSE Frame(f.cols,
                     [i \in 1 .. Len(f.rows) |->
                         [f.rows[i] EXCEPT ![at] = sum(i)]])

\* str(n) for the integers a key takes
Numeral(n) ==
    CASE n = 1 -> "1" [] n = 2 -> "2" [] n = 3 -> "3" [] n = 4 -> "4"
      [] n = 0 -> "0" [] n = -1 -> "-1" [] n = -2 -> "-2"
      [] OTHER -> "n"

\* .astype(str) of one cell: the digits of an int, a str as it is, the
\* digits of a checksum (kept as the structure)
AsStr(c) ==
    [s |-> CASE c.ty = "int" -> Numeral(c.n)
             [] c.ty = "str" -> c.s
             [] OTHER -> "",
     h |-> c.h]

\* key.astype(str) + '_' + checksum.astype(str); the digits of the checksum
\* hold no '_', so the two parts determine the text and the text them
RowKeyText(key, sum) == <<AsStr(key), AsStr(sum)>>

\* set(df[key_column].astype(str) + '_' + df['checksum'].astype(str))
KeySet(f, key) ==
    {RowKeyText(f.rows[i][ColumnIndex(f.cols, key)],
                f.rows[i][ColumnIndex(f.cols, "checksum")]) :
        i \in 1 .. Len(f.rows)}

SymmetricDifference(A, B) == (A \ B) \cup (B \ A)

\* what validate_checksum(source_df, target_df, key) leaves and returns:
\* the KeyError of an absent key column is raised at line 41, after the
\* source frame got its checksum column, and is turned into False
ChecksumCall(sf, tf, key, seed) ==
    LET s1 == WithChecksum(sf, seed)
        t1 == WithChecksum(tf, seed)
    IN IF ColumnIndex(s1.cols, key) = 0
          THEN [src |-> s1, tgt |-> tf, ret |-> "false", diff |-> Unknown]
          ELSE LET d == SymmetricDifference(KeySet(s1, key), KeySet(t1, key))
               IN [src |-> s1, tgt |-> t1,
                   ret |-> IF d = {} THEN "true" ELSE "false",
                   diff |-> Cardinality(d)]

\* validate_nulls(df, critical_columns): df[critical_columns] raises KeyError
\* when a named column is absent and nothing catches it
NullCount(f, c) ==
    Cardinality({i \in 1 .. Len(f.rows) :
                    f.rows[i][ColumnIndex(f.cols, c)] = NullCell})
NullsCall(f, critical) ==
    IF \E c \in critical : ColumnIndex(f.cols, c) = 0 THEN "raised"
    ELSE IF \E c \in critical : NullCount(f, c) > 0 THEN "false"
    ELSE "true"

\* validate_schema(source_schema, target_schema): the column names only
SchemaCall(sourceCols, targetCols) ==
    IF sourceCols # targetCols THEN "false" ELSE "true"

\* validate_row_counts(source_count, target_count)
RowCountsCall(a, b) == IF a = b THEN "true" ELSE "false"

\* the results dict given to generate_validation_report: the four checks and
\* the detail entries source_rows and target_rows, Unknown when not given
Results == [row_count : BOOLEAN, schema : BOOLEAN, checksum : BOOLEAN,
            nulls : BOOLEAN,
            source_rows : {Unknown} \cup (0 .. MaxCount),
            target_rows : {Unknown} \cup (0 .. MaxCount)]

\* all(results.values()): over every value of the dict, the detail entries
\* included when they are given
AllValues(res) ==
    /\ res.row_count /\ res.schema /\ res.checksum /\ res.nulls
    /\ res.source_rows = Unknown \/ res.source_rows # 0
    /\ res.target_rows = Unknown \/ res.target_rows # 0

\* the Overall Status line of the report
ReportCall(res) == IF AllValues(res) THEN "APPROVED" ELSE "ISSUES DETECTED"

NoResults == [row_count |-> FALSE, schema |-> FALSE, checksum |-> FALSE,
              nulls |-> FALSE, source_rows |-> Unknown,
              target_rows |-> Unknown]
NoCall == [fn |-> "none", ret |-> "none", diff |-> Unknown, key |-> "",
           results |-> NoResults]

\* ------------------------------------------------------------- states
NoRun == [mode |-> "none", seen |-> {}]

PipelineInit ==
    /\ source = [t \in Tables |-> IF t \in Growing THEN {} ELSE {1}]
    /\ wmFile = EmptyFile
    /\ dest = [t \in Tables |-> [d \in Days |-> Absent]]
    /\ pc = [t \in Tables |-> "idle"]
    /\ incr = [t \in Tables |-> FALSE]
    /\ conn = [t \in Tables |-> "none"]
    /\ df = [t \in Tables |-> {}]
    /\ dfCols = [t \in Tables |-> {}]
    /\ result = [t \in Tables |-> "none"]
    /\ failed = [t \in Tables |-> "none"]
    /\ closes = [t \in Tables |-> 0]
    /\ logAtStart = [t \in Tables |-> EmptyFile]
    /\ destAtStart = [t \in Tables |-> [d \in Days |-> Absent]]
    /\ seen = [t \in Tables |-> {}]
    /\ lastDone = [t \in Tables |-> NoRun]
    /\ loadedRows = [t \in Tables |-> {}]
    /\ sets = [t \in Tables |-> <<>>]
    /\ runs = 0

\* no validator has been called
ValidatorIdle ==
    /\ sourceDf = EmptyFrame
    /\ targetDf = EmptyFrame
    /\ givenSource = EmptyFrame
    /\ givenTarget = EmptyFrame
    /\ hashSeed = 0
    /\ returned = NoCall
    /\ prints = {}
    /\ calls = 0

Init == PipelineInit /\ ValidatorIdle

\* ------------------------------------------------------- environment
\* The pipeline reads the source only in Extract, so an insert that falls
\* inside a call has the effect of one just before or just after it: the
\* source changes between calls.
Quiet == \A u \in Tables : pc[u] = "idle"

\* A row is inserted (or updated) in the source: its LastModified is greater
\* than every value the table holds.
AddRow(t, v) ==
    /\ Quiet
    /\ t \in Growing
    /\ \A r \in source[t] : r < v
    /\ source' = [source EXCEPT ![t] = @ \cup {v}]
    /\ UNCHANGED <<wmFile, dest, pc, incr, conn, df, dfCols, result,
                   failed, closes, logAtStart, destAtStart, seen, lastDone,
                   loadedRows, sets, runs>>
    /\ UNCHANGED valVars

\* ------------------------------------------------------ migrate_table
\* A stage raises: control leaves the try block through `except ... raise`.
Raise(t, stage) ==
    /\ pc' = [pc EXCEPT ![t] = "FINALLY"]
    /\ result' = [result EXCEPT ![t] = "raised"]
    /\ failed' = [failed EXCEPT ![t] = stage]

\* migrate_table(source_config, t, inc) is called, one call at a time as in
\* the __main__ loops; conn = None.
Start(t, inc) ==
    /\ Quiet
    /\ runs < MaxRuns
    /\ runs' = runs + 1
    /\ pc' = [pc EXCEPT ![t] = "START"]
    /\ incr' = [incr EXCEPT ![t] = inc]
    /\ logAtStart' = [logAtStart EXCEPT ![t] = wmFile]
    /\ destAtStart' = [destAtStart EXCEPT ![t] = dest[t]]
    /\ UNCHANGED <<source, wmFile, dest, conn, df, dfCols, result, failed,
                   closes, seen, lastDone, loadedRows, sets>>
    /\ UNCHANGED valVars

\* connect_onprem_sql: returns a connection or raises
Connect(t, ok) ==
    /\ pc[t] = "START"
    /\ IF ok
          THEN /\ conn' = [conn EXCEPT ![t] = "open"]
               /\ pc' = [pc EXCEPT ![t] = "CONNECTED"]
               /\ UNCHANGED <<result, failed>>
          ELSE Raise(t, "connect") /\ UNCHANGED conn
    /\ UNCHANGED <<source, wmFile, dest, incr, df, dfCols, closes,
                   logAtStart, destAtStart, seen, lastDone, loadedRows, sets,
                   runs>>
    /\ UNCHANGED valVars

\* extract_data: reads the watermark (incremental) and runs the query;
\* raises when get_watermark or pd.read_sql raises
Extract(t, ok) ==
    /\ pc[t] = "CONNECTED"
    /\ IF ok /\ ~(incr[t] /\ GetWatermark(t) = Raised)
          THEN /\ df' = [df EXCEPT ![t] = ExtractData(t)]
               /\ dfCols' = [dfCols EXCEPT ![t] = TableColumns(t)]
               /\ seen' = [seen EXCEPT ![t] = source[t]]
               /\ pc' = [pc EXCEPT ![t] = "EXTRACTED"]
               /\ UNCHANGED <<result, failed>>
          ELSE Raise(t, "extract") /\ UNCHANGED <<df, dfCols, seen>>
    /\ UNCHANGED <<source, wmFile, dest, incr, conn, closes,
                   logAtStart, destAtStart, lastDone, loadedRows, sets, runs>>
    /\ UNCHANGED valVars

\* `if len(df) == 0: return`
NoData(t) ==
    /\ pc[t] = "EXTRACTED"
    /\ IsEmptyBatch(t)
    /\ pc' = [pc EXCEPT ![t] = "FINALLY"]
    /\ result' = [result EXCEPT ![t] = "ok"]
    /\ UNCHANGED <<source, wmFile, dest, incr, conn, df, dfCols,
                   failed, closes, logAtStart, destAtStart, seen, lastDone,
                   loadedRows, sets, runs>>
    /\ UNCHANGED valVars

\* transform_for_synapse(df)
Transform(t, ok) ==
    /\ pc[t] = "EXTRACTED"
    /\ ~IsEmptyBatch(t)
    /\ IF ok
          THEN /\ dfCols' = [dfCols EXCEPT ![t] = TransformColumns(@)]
               /\ pc' = [pc EXCEPT ![t] = "TRANSFORMED"]
               /\ UNCHANGED <<result, failed>>
          ELSE Raise(t, "transform") /\ UNCHANGED dfCols
    /\ UNCHANGED <<source, wmFile, dest, incr, conn, df, closes,
                   logAtStart, destAtStart, seen, lastDone, loadedRows, sets,
                   runs>>
    /\ UNCHANGED valVars

\* (mutant) the write adds the batch to what the file holds
WriteParquetAppend(old, rows) == Parquet(old.rows \cup rows)

\* df.to_parquet(adls_path, ...): the file at the path holds this batch,
\* whatever it held
WriteParquet(old, rows) == Parquet(rows)

\* (mutant) load_to_adls logs the error and returns instead of raising
LoadErrorSwallowed(t) ==
    /\ pc' = [pc EXCEPT ![t] = "LOADED"]
    /\ failed' = [failed EXCEPT ![t] = "load"]
    /\ UNCHANGED result

\* load_to_adls's `except Exception: logger.error(...); raise`
LoadError(t) == Raise(t, "load")

\* load_to_adls(df_transformed, t, 'bronze') on the date d that
\* datetime.now() gives: to_parquet replaces the file at
\* bronze/<t>/<d>/<t>.parquet; a failing write leaves the file as it was (it
\* failed before opening it) or broken (it failed while writing).
Load(t, d, ok, clobber) ==
    /\ pc[t] = "TRANSFORMED"
    /\ IF ok
          THEN /\ dest' = [dest EXCEPT ![t][d] = WriteParquet(@, df[t])]
               /\ loadedRows' = [loadedRows EXCEPT ![t] = @ \cup df[t]]
               /\ pc' = [pc EXCEPT ![t] = "LOADED"]
               /\ UNCHANGED <<result, failed>>
          ELSE /\ LoadError(t)
               /\ dest' = IF clobber THEN [dest EXCEPT ![t][d] = Broken]
                                     ELSE dest
               /\ UNCHANGED loadedRows
    /\ UNCHANGED <<source, wmFile, incr, conn, df, dfCols, closes,
                   logAtStart, destAtStart, seen, lastDone, sets, runs>>
    /\ UNCHANGED valVars

\* update_watermark(t, v) with what the write left in the file (o); the
\* method catches every exception, so the caller never sees o.
UpdateWatermark(t, v, o) ==
    /\ wmFile' = AppendToFile(wmFile, t, v, o)
    /\ sets' = IF o = "ok" THEN [sets EXCEPT ![t] = Append(@, v)] ELSE sets

\* lines 177-182: advance the watermark to df['lastmodified'].max(), then
\* fall out of the try block
Advance(t, o) ==
    /\ pc[t] = "LOADED"
    /\ IF ShouldAdvance(t)
          THEN UpdateWatermark(t, SetMax(df[t]), o)
          ELSE o = "ok" /\ UNCHANGED <<wmFile, sets>>
    /\ pc' = [pc EXCEPT ![t] = "FINALLY"]
    /\ result' = [result EXCEPT ![t] = "ok"]
    /\ UNCHANGED <<source, dest, incr, conn, df, dfCols, failed,
                   closes, logAtStart, destAtStart, seen, lastDone, loadedRows,
                   runs>>
    /\ UNCHANGED valVars

\* finally: if conn: conn.close(); then the call returns or re-raises
Finally(t) ==
    /\ pc[t] = "FINALLY"
    /\ IF ShouldClose(t)
          THEN /\ conn' = [conn EXCEPT ![t] = "closed"]
               /\ closes' = [closes EXCEPT ![t] = @ + 1]
          ELSE UNCHANGED <<conn, closes>>
    /\ pc' = [pc EXCEPT ![t] = IF result[t] = "ok" THEN "DONE" ELSE "ABORTED"]
    /\ lastDone' = IF result[t] = "ok"
                      THEN [lastDone EXCEPT ![t] =
                              [mode |-> IF incr[t] THEN "incremental" ELSE "full",
                               seen |-> seen[t]]]
                      ELSE lastDone
    /\ UNCHANGED <<source, wmFile, dest, incr, df, dfCols, result,
                   failed, logAtStart, destAtStart, seen, loadedRows, sets,
                   runs>>
    /\ UNCHANGED valVars

\* The call has returned (or raised): its locals are gone.
Return(t) ==
    /\ pc[t] \in {"DONE", "ABORTED"}
    /\ pc' = [pc EXCEPT ![t] = "idle"]
    /\ incr' = [incr EXCEPT ![t] = FALSE]
    /\ conn' = [conn EXCEPT ![t] = "none"]
    /\ df' = [df EXCEPT ![t] = {}]
    /\ dfCols' = [dfCols EXCEPT ![t] = {}]
    /\ result' = [result EXCEPT ![t] = "none"]
    /\ failed' = [failed EXCEPT ![t] = "none"]
    /\ closes' = [closes EXCEPT ![t] = 0]
    /\ logAtStart' = [logAtStart EXCEPT ![t] = EmptyFile]
    /\ destAtStart' = [destAtStart EXCEPT ![t] = [d \in Days |-> Absent]]
    /\ seen' = [seen EXCEPT ![t] = {}]
    /\ UNCHANGED <<source, wmFile, dest, lastDone, loadedRows, sets, runs>>
    /\ UNCHANGED valVars

Next ==
    \/ \E t \in Tables, v \in Ts : AddRow(t, v)
    \/ \E t \in Tables, inc \in BOOLEAN : Start(t, inc)
    \/ \E t \in Tables, ok \in BOOLEAN : Connect(t, ok)
    \/ \E t \in Tables, ok \in BOOLEAN : Extract(t, ok)
    \/ \E t \in Tables : NoData(t)
    \/ \E t \in Tables, ok \in BOOLEAN : Transform(t, ok)
    \/ \E t \in Tables, d \in Days, ok, clobber \in BOOLEAN :
          Load(t, d, ok, clobber)
    \/ \E t \in Tables, o \in Outcomes : Advance(t, o)
    \/ \E t \in Tables : Finally(t)
    \/ \E t \in Tables : Return(t)

Spec == Init /\ [][Next]_vars

\* ------------------------------------------- the watermark store alone
\* A caller uses update_watermark directly, with any timestamp.
SetCall(t, v, o) ==
    /\ runs < MaxRuns
    /\ runs' = runs + 1
    /\ UpdateWatermark(t, v, o)
    /\ UNCHANGED <<source, dest, pc, incr, conn, df, dfCols, result,
                   failed, closes, logAtStart, destAtStart, seen, lastDone,
                   loadedRows>>
    /\ UNCHANGED valVars

StoreNext == \E t \in Tables, v \in Ts, o \in Outcomes : SetCall(t, v, o)

StoreSpec == Init /\ [][StoreNext]_vars

\* ------------------------------------------------ concurrent workers
\* One worker per table, each calling migrate_table for its own table, all
\* sharing migration_watermark.txt.  The code takes no lock.  A worker's
\* steps interleave freely with the other's; update_watermark's record is
\* one buffered write flushed when the with-block closes the file opened in
\* append mode, so a completed append is one step, and a failed one leaves
\* what Written describes.
StartWorker(t, inc) ==
    /\ pc[t] = "idle"
    /\ runs < MaxRuns
    /\ runs' = runs + 1
    /\ pc' = [pc EXCEPT ![t] = "START"]
    /\ incr' = [incr EXCEPT ![t] = inc]
    /\ logAtStart' = [logAtStart EXCEPT ![t] = wmFile]
    /\ destAtStart' = [destAtStart EXCEPT ![t] = dest[t]]
    /\ UNCHANGED <<source, wmFile, dest, conn, df, dfCols, result, failed,
                   closes, seen, lastDone, loadedRows, sets>>
    /\ UNCHANGED valVars

WorkersNext ==
    \/ \E t \in Tables, v \in Ts : AddRow(t, v)
    \/ \E t \in Tables, inc \in BOOLEAN : StartWorker(t, inc)
    \/ \E t \in Tables, ok \in BOOLEAN : Connect(t, ok)
    \/ \E t \in Tables, ok \in BOOLEAN : Extract(t, ok)
    \/ \E t \in Tables : NoData(t)
    \/ \E t \in Tables, ok \in BOOLEAN : Transform(t, ok)
    \/ \E t \in Tables, d \in Days, ok, clobber \in BOOLEAN :
          Load(t, d, ok, clobber)
    \/ \E t \in Tables, o \in Outcomes : Advance(t, o)
    \/ \E t \in Tables : Finally(t)
    \/ \E t \in Tables : Return(t)

WorkersSpec == Init /\ [][WorkersNext]_vars

\* ------------------------------------------- MigrationValidator calls
\* One process holds a source frame and a target frame and calls the
\* validators on them; a later process reads the same data again.
ValidatorCalls ==
    {"validate_checksum", "validate_nulls", "validate_schema",
     "validate_row_counts", "generate_validation_report"}

Outcome(fn, ret, diff, key, res) ==
    [fn |-> fn, ret |-> ret, diff |-> diff, key |-> key, results |-> res]

\* the fingerprints a validate_checksum call computed for the rows of f
PrintsOf(f, seed) ==
    {[row |-> f.rows[i], print |-> RowHash(f.rows[i], seed)] :
        i \in 1 .. Len(f.rows)}

\* validate_checksum(source_df, target_df, key)
ValidateChecksum(key) ==
    /\ calls < MaxCalls
    /\ calls' = calls + 1
    /\ LET r == ChecksumCall(sourceDf, targetDf, key, hashSeed)
       IN /\ sourceDf' = r.src
          /\ targetDf' = r.tgt
          /\ returned' = Outcome("validate_checksum", r.ret, r.diff, key,
                                 NoResults)
          /\ prints' = prints \cup PrintsOf(sourceDf, hashSeed)
                          \cup (IF r.tgt = targetDf THEN {}
                                ELSE PrintsOf(targetDf, hashSeed))
    /\ UNCHANGED <<givenSource, givenTarget, hashSeed>>
    /\ UNCHANGED pipeVars

\* validate_nulls(df, critical_columns)
ValidateNulls(f, critical) ==
    /\ calls < MaxCalls
    /\ calls' = calls + 1
    /\ returned' = Outcome("validate_nulls", NullsCall(f, critical), Unknown,
                           "", NoResults)
    /\ UNCHANGED <<sourceDf, targetDf, givenSource, givenTarget, hashSeed,
                   prints>>
    /\ UNCHANGED pipeVars

\* validate_schema(source_schema, target_schema)
ValidateSchema(sourceCols, targetCols) ==
    /\ calls < MaxCalls
    /\ calls' = calls + 1
    /\ returned' = Outcome("validate_schema",
                           SchemaCall(sourceCols, targetCols), Unknown, "",
                           NoResults)
    /\ UNCHANGED <<sourceDf, targetDf, givenSource, givenTarget, hashSeed,
                   prints>>
    /\ UNCHANGED pipeVars

\* validate_row_counts(source_count, target_count)
ValidateRowCounts(a, b) ==
    /\ calls < MaxCalls
    /\ calls' = calls + 1
    /\ returned' = Outcome("validate_row_counts", RowCountsCall(a, b),
                           Unknown, "", NoResults)
    /\ UNCHANGED <<sourceDf, targetDf, givenSource, givenTarget, hashSeed,
                   prints>>
    /\ UNCHANGED pipeVars

\* the caller reads the target again: a fresh frame with the same rows
FreshTarget ==
    /\ targetDf # givenTarget
    /\ targetDf' = givenTarget
    /\ UNCHANGED <<sourceDf, givenSource, givenTarget, hashSeed, returned,
                   prints, calls>>
    /\ UNCHANGED pipeVars

\* a new interpreter process validates the same data: fresh frames and the
\* hash seed that process drew
NewProcess(seed) ==
    /\ calls > 0
    /\ seed # hashSeed
    /\ hashSeed' = seed
    /\ sourceDf' = givenSource
    /\ targetDf' = givenTarget
    /\ UNCHANGED <<givenSource, givenTarget, returned, prints, calls>>
    /\ UNCHANGED pipeVars

ValidatorInit ==
    /\ PipelineInit
    /\ givenSource \in FramesOver(Values)
    /\ givenTarget \in FramesOver(Values)
    /\ sourceDf = givenSource
    /\ targetDf = givenTarget
    /\ hashSeed = 0
    /\ returned = NoCall
    /\ prints = {}
    /\ calls = 0

ValidatorNext ==
    \/ \E key \in {KeyColumn, "missing"} : ValidateChecksum(key)
    \/ \E f \in FramesOver({IntCell(0), NullCell}),
          critical \in SUBSET {"id", "val", "missing"} :
          ValidateNulls(f, critical)
    \/ \E sourceCols, targetCols \in SUBSET {"id", "val"} :
          ValidateSchema(sourceCols, targetCols)
    \/ \E a, b \in 0 .. MaxCount : ValidateRowCounts(a, b)
    \/ FreshTarget
    \/ \E seed \in Seeds : NewProcess(seed)

ValidatorSpec == ValidatorInit /\ [][ValidatorNext]_vars

\* generate_validation_report(table_name, results), for any results dict
GenerateReport(res) ==
    /\ calls < MaxCalls
    /\ calls' = calls + 1
    /\ returned' = Outcome("generate_validation_report", ReportCall(res),
                           Unknown, "", res)
    /\ UNCHANGED <<sourceDf, targetDf, givenSource, givenTarget, hashSeed,
                   prints>>
    /\ UNCHANGED pipeVars

ReportNext == \E res \in Results : GenerateReport(res)

ReportSpec == Init /\ [][ReportNext]_vars

\* ------------------------------------------------------ calls that run on
\* migrate_table has no loop and waits for nothing but the calls it makes,
\* each of which returns or raises: a call that has started keeps taking its
\* next step.  The source is the one the calls find: it does not change
\* between them.
Calls ==
    \/ \E t \in Tables, inc \in BOOLEAN : Start(t, inc)
    \/ \E t \in Tables, ok \in BOOLEAN : Connect(t, ok)
    \/ \E t \in Tables, ok \in BOOLEAN : Extract(t, ok)
    \/ \E t \in Tables : NoData(t)
    \/ \E t \in Tables, ok \in BOOLEAN : Transform(t, ok)
    \/ \E t \in Tables, d \in Days, ok, clobber \in BOOLEAN :
          Load(t, d, ok, clobber)
    \/ \E t \in Tables, o \in Outcomes : Advance(t, o)
    \/ \E t \in Tables : Finally(t)
    \/ \E t \in Tables : Return(t)

FairSpec == Init /\ [][Calls]_vars /\ WF_vars(Calls)

\* =============================================================== claims
Returned(t) == pc[t] = "DONE"
Ended(t) == pc[t] \in {"DONE", "ABORTED"}

\* the value of the last completed update_watermark(t, .), else the sentinel
LastSet(t) == IF sets[t] = <<>> THEN Sentinel ELSE sets[t][Len(sets[t])]

\* the greatest value a completed update_watermark(t, .) was given, else the
\* sentinel
MaxAdvanced(t) ==
    IF sets[t] = <<>> THEN Sentinel
    ELSE SetMax({sets[t][i] : i \in 1 .. Len(sets[t])})

\* C1 (as claimed): after any sequence of update_watermark calls,
\* get_watermark(t) returns the timestamp of the last call for t that
\* succeeded, and the sentinel when none did.
C1_GetReturnsLastSet ==
    \A t \in Tables : GetWatermark(t) = LastSet(t)

\* C2 (as claimed): the watermark of a table equals, at every point, the
\* greatest timestamp it was ever successfully advanced to, and no step
\* lowers it.
C2_WatermarkMonotone ==
    /\ [](\A t \in Tables : GetWatermark(t) = MaxAdvanced(t))
    /\ [][\A t \in Tables : GetWatermarkOf(wmFile', t) >= GetWatermark(t)]_vars

\* C3: a run in which connect, extract, transform or load failed ends with
\* the error raised, the watermark file as it was when the run started, and
\* hence the same watermark for the table: the next incremental run asks for
\* every row the failed one asked for.
C3_FailedRunKeepsWatermark ==
    \A t \in Tables :
        (Ended(t) /\ failed[t] # "none") =>
            /\ pc[t] = "ABORTED"
            /\ result[t] = "raised"
            /\ wmFile = logAtStart[t]
            /\ GetWatermark(t) = GetWatermarkOf(logAtStart[t], t)
            /\ \A r \in Ts : r > GetWatermarkOf(logAtStart[t], t)
                                => r > GetWatermark(t)

\* C3 witness: a load failure in an incremental run of a table whose
\* watermark an earlier run had advanced.
C3_Witness ==
    \E t \in Tables :
        /\ pc[t] = "ABORTED" /\ failed[t] = "load" /\ incr[t]
        /\ sets[t] # <<>> /\ GetWatermark(t) > Sentinel

\* C4 (as claimed): after a run that returned, every source row at or below
\* the table's watermark was in a batch the loader wrote.
C4_AtLeastOnce ==
    \A t \in Tables :
        (Returned(t) /\ GetWatermark(t) # Raised) =>
            \A r \in source[t] : r <= GetWatermark(t) => r \in loadedRows[t]

\* C5 (as claimed): after an incremental run with a non-empty batch has
\* loaded it, the table's watermark is the greatest LastModified of the batch.
C5_WatermarkIsBatchMax ==
    \A t \in Tables :
        (Returned(t) /\ incr[t] /\ df[t] # {}) =>
            GetWatermark(t) = SetMax(df[t])

\* the previous run of t that returned was incremental / full
AfterIncremental(t) == lastDone[t].mode = "incremental"
AfterFull(t) == lastDone[t].mode = "full"

\* an incremental run of t has just extracted (lastDone[t] is still the
\* run before it)
JustExtracted(t) == pc[t] = "EXTRACTED" /\ incr[t]

StartWatermark(t) == GetWatermarkOf(logAtStart[t], t)

\* no row was added since the previous run of t that returned
NoNewRows(t) == seen[t] = lastDone[t].seen /\ seen[t] # {}

\* the current run of t went from extraction straight to its end
DidNothing(t) ==
    /\ df[t] = {}
    /\ pc[t] = "FINALLY" =>
        /\ result[t] = "ok"
        /\ dfCols[t] = TableColumns(t)
        /\ dest[t] = destAtStart[t]
        /\ wmFile = logAtStart[t]

\* C7 (as claimed): from a sentinel watermark, after a full run loaded all
\* rows of a non-empty table, an incremental run with no new rows extracts
\* nothing.
C7_NothingAfterFullRun ==
    \A t \in Tables :
        (JustExtracted(t) /\ AfterFull(t) /\ NoNewRows(t)
           /\ StartWatermark(t) = Sentinel) => df[t] = {}

\* C7 (amended): after an incremental run has loaded all rows and its
\* advance took effect (the watermark is the greatest LastModified in the
\* table), an incremental run with no new rows extracts nothing and does no
\* transform, load or advance; after a full run from a sentinel watermark the
\* watermark is still the sentinel, and the incremental run extracts every
\* row above the sentinel again.
C7_NothingAfterAdvance ==
    \A t \in Tables :
        (pc[t] \in {"EXTRACTED", "FINALLY"} /\ incr[t] /\ failed[t] = "none"
           /\ NoNewRows(t)) =>
            /\ (AfterIncremental(t) /\ StartWatermark(t) = SetMax(seen[t]))
                 => DidNothing(t)
            /\ (AfterFull(t) /\ StartWatermark(t) = Sentinel)
                 => df[t] = seen[t] \ {Sentinel}

\* C7 witness: the incremental run after an advance that took effect is at
\* its end, having extracted nothing from a non-empty table.
C7_Witness ==
    \E t \in Tables :
        /\ pc[t] = "FINALLY" /\ incr[t] /\ failed[t] = "none"
        /\ NoNewRows(t) /\ AfterIncremental(t)
        /\ StartWatermark(t) = SetMax(seen[t])
        /\ StartWatermark(t) > Sentinel

\* C8: a full-mode run never changes the watermark file, at any stage and
\* however it ends.
C8_FullRunKeepsLog ==
    \A t \in Tables :
        (pc[t] # "idle" /\ ~incr[t]) => wmFile = logAtStart[t]

\* C8 witness: a full-mode run has loaded a batch and returned, and the
\* watermark file holds a record.
C8_Witness ==
    \E t \in Tables :
        /\ Returned(t) /\ ~incr[t] /\ df[t] # {}
        /\ df[t] \subseteq loadedRows[t]
        /\ wmFile.lines # <<>>

\* C9: a run whose extraction gave no rows returns normally, and neither the
\* transformer, the loader nor update_watermark ran: the batch's columns,
\* the destination and the watermark file are as when the run started.
C9_ZeroRowsTouchNothing ==
    \A t \in Tables :
        (pc[t] \in {"FINALLY", "DONE", "ABORTED"}
           /\ failed[t] \notin {"connect", "extract"} /\ df[t] = {}) =>
            /\ result[t] = "ok" /\ pc[t] # "ABORTED"
            /\ dfCols[t] = TableColumns(t)
            /\ dest[t] = destAtStart[t]
            /\ wmFile = logAtStart[t]

\* C9 witness: an incremental run finds every row of a non-empty table at or
\* below the watermark and returns.
C9_Witness ==
    \E t \in Tables :
        /\ Returned(t) /\ incr[t] /\ df[t] = {}
        /\ seen[t] # {} /\ wmFile.lines # <<>>
        /\ \E d \in Days : dest[t][d] # Absent

\* C10: a run that has ended holds no open connection; it closed its
\* connection exactly once if it acquired one, and never otherwise.
C10_ConnectionReleased ==
    \A t \in Tables :
        /\ closes[t] <= 1
        /\ Ended(t) =>
             \/ conn[t] = "closed" /\ closes[t] = 1 /\ failed[t] # "connect"
             \/ conn[t] = "none" /\ closes[t] = 0 /\ failed[t] = "connect"

\* C10 witness: a run that acquired a connection and ended through a failed
\* load has closed it.
C10_Witness ==
    \E t \in Tables :
        pc[t] = "ABORTED" /\ failed[t] = "load" /\ conn[t] = "closed"

\* a line of the watermark file as one completed update_watermark call
\* writes it
CompleteLine(line) == \E t \in Tables, v \in Ts : line = Record(t, v)

\* the file holds a record that a failed write left behind
HasPartialRecord ==
    \/ wmFile.tail # <<>>
    \/ \E i \in 1 .. Len(wmFile.lines) : ~CompleteLine(wmFile.lines[i])

\* C11 (as claimed): once a failed update_watermark has left a partial
\* record in the file, get_watermark still returns, for every table, the
\* timestamp of its last completely written record, or the sentinel when it
\* has none: it neither raises nor takes a timestamp from the partial record.
C11_PartialRecordIgnored ==
    HasPartialRecord => \A t \in Tables : GetWatermark(t) = LastSet(t)

Mentions(line, t) == \E i \in 1 .. Len(line) : line[i].t = t

\* no line of the file carries text of two tables' records
OneTablePerLine ==
    \A i \in 1 .. Len(FileLines(wmFile)) :
        \A t, u \in Tables :
            (Mentions(FileLines(wmFile)[i], t)
               /\ Mentions(FileLines(wmFile)[i], u)) => t = u

AllFinished == \A u \in Tables : pc[u] \in {"idle", "DONE", "ABORTED"}

\* C12 (as claimed): with one migrate_table worker per table on a shared
\* watermark file, under every interleaving, no record is mixed with or cut
\* by another worker's record, no step of the worker of one table changes
\* what get_watermark returns for another table, and once all workers have
\* finished each table's watermark is what its own worker last set.
C12_WorkersIndependent ==
    /\ []OneTablePerLine
    /\ [][\A t, u \in Tables :
            (t # u /\ pc'[t] # pc[t]) =>
                GetWatermarkOf(wmFile', u) = GetWatermark(u)]_vars
    /\ [](AllFinished => \A t \in Tables : GetWatermark(t) = LastSet(t))

\* a run that returned with a batch loaded and whose update_watermark call
\* did not append its record to the file
AdvanceLost(t) ==
    /\ Returned(t) /\ incr[t] /\ df[t] # {}
    /\ "lastmodified" \in dfCols[t]
    /\ wmFile # AppendToFile(logAtStart[t], t, SetMax(df[t]), "ok")

\* C13 (as claimed): when the watermark append fails after a successful
\* load, migrate_table returns without raising, the table's watermark is the
\* one the run started with, and every row of the batch is above it, so the
\* next incremental run extracts the batch again.
C13_LostAdvanceKeepsWatermark ==
    \A t \in Tables :
        AdvanceLost(t) =>
            /\ result[t] = "ok"
            /\ GetWatermark(t) = GetWatermarkOf(logAtStart[t], t)
            /\ GetWatermark(t) # Raised
            /\ \A r \in df[t] : r > GetWatermark(t)

\* ---------------------------------------------------------- validators
RowSet(f) == {f.rows[i] : i \in 1 .. Len(f.rows)}

\* the first validate_checksum call of the process, on the frames as read
FirstChecksum ==
    /\ returned.fn = "validate_checksum" /\ returned.key = KeyColumn
    /\ calls = 1

\* T is S without one of its rows
OneRowRemoved(S, T) ==
    RowSet(T) \subseteq RowSet(S) /\ Cardinality(RowSet(S) \ RowSet(T)) = 1

\* T is S with the non-key value of one row changed
OneValueChanged(S, T) ==
    \E r \in RowSet(S), q \in RowSet(T) :
        /\ r[1] = q[1] /\ r[2] # q[2]
        /\ RowSet(S) \ {r} = RowSet(T) \ {q}

\* C14 (as claimed): validate_checksum returns True exactly when source and
\* target hold the same set of rows, in any order; with one row removed from
\* the target it fails with a difference of 1, and with one non-key value
\* changed it fails with a difference of 2, whatever the two values are.
C14_ChecksumIsSetEquality ==
    FirstChecksum =>
        /\ returned.ret = "true" <=> RowSet(givenSource) = RowSet(givenTarget)
        /\ OneRowRemoved(givenSource, givenTarget) =>
              returned.ret = "false" /\ returned.diff = 1
        /\ OneValueChanged(givenSource, givenTarget) =>
              returned.ret = "false" /\ returned.diff = 2

\* C15 (as claimed): a validator call leaves the frames it was given as they
\* were, so every validate_checksum call on the source frame, the first or a
\* later one against a fresh copy of the target, returns what one call on
\* freshly read frames returns.
C15_ValidatorsKeepInputs ==
    (returned.fn = "validate_checksum" /\ returned.key = KeyColumn) =>
        /\ sourceDf = givenSource
        /\ targetDf = givenTarget
        /\ returned.ret =
              ChecksumCall(givenSource, givenTarget, KeyColumn, hashSeed).ret

\* C16 (as claimed): every call of validate_checksum, validate_nulls,
\* validate_schema or validate_row_counts returns True or False and raises
\* nothing, also when the key column or a critical column is absent from
\* the frame.
C16_ValidatorsReturnBoolean ==
    returned.fn \in ValidatorCalls \ {"generate_validation_report"} =>
        returned.ret \in {"true", "false"}

\* C17 (as claimed): the overall status of the report is the conjunction of
\* the four fields row_count, schema, checksum and nulls, whatever detail
\* entries (source_rows, target_rows, a count of 0 included) the results
\* carry.
C17_OverallIsAndOfFour ==
    returned.fn = "generate_validation_report" =>
        (returned.ret = "APPROVED" <=>
            /\ returned.results.row_count /\ returned.results.schema
            /\ returned.results.checksum /\ returned.results.nulls)

\* C18 (as claimed): the fingerprint validate_checksum computes for a row is
\* the same in every process and run: no two calls, whatever the hash seed
\* of the interpreter, give one row two fingerprints.
C18_FingerprintStable ==
    \A p, q \in prints : p.row = q.row => p.print = q.print

\* ------------------------------------------------------------- stages
StepOf(t) == pc'[t] # pc[t]

\* the moves of one call: the stages in order, a raise from connect,
\* extract, transform or load (or the return on an empty batch) to the
\* finally block, and from there to one of the two ends
StageMoves ==
    {<<"idle", "START">>, <<"START", "CONNECTED">>,
     <<"CONNECTED", "EXTRACTED">>, <<"EXTRACTED", "TRANSFORMED">>,
     <<"TRANSFORMED", "LOADED">>, <<"LOADED", "FINALLY">>,
     <<"START", "FINALLY">>, <<"CONNECTED", "FINALLY">>,
     <<"EXTRACTED", "FINALLY">>, <<"TRANSFORMED", "FINALLY">>,
     <<"FINALLY", "DONE">>, <<"FINALLY", "ABORTED">>,
     <<"DONE", "idle">>, <<"ABORTED", "idle">>}

\* this step is an update_watermark call whose record did not reach the file
AdvanceFails(t) ==
    /\ pc[t] = "LOADED" /\ ShouldAdvance(t)
    /\ wmFile' # AppendToFile(wmFile, t, SetMax(df[t]), "ok")

\* what holds of every step of the call for t whatever a failed watermark
\* write leads to
StageStep(t) ==
    /\ <<pc[t], pc'[t]>> \in StageMoves
    \* connect, extract, transform or load fails: the error is raised
    /\ failed'[t] \notin {failed[t], "none"} =>
          pc'[t] = "FINALLY" /\ result'[t] = "raised"
    \* a raised error ends the call ABORTED, a return ends it DONE
    /\ pc[t] = "FINALLY" =>
          pc'[t] = IF result[t] = "raised" THEN "ABORTED" ELSE "DONE"
    \* the destination is written by the load stage only
    /\ dest' # dest => pc[t] = "TRANSFORMED"
    \* the watermark file is written only after this call's load succeeded
    /\ wmFile' # wmFile =>
          /\ pc[t] = "LOADED" /\ failed[t] = "none"
          /\ \E d \in Days : dest[t][d] = Parquet(df[t])
    \* once an error is raised no stage runs
    /\ result[t] = "raised" =>
          /\ pc'[t] \in {"ABORTED", "idle"}
          /\ UNCHANGED <<wmFile, dest, source>>

\* C19 (as claimed): the stages of a run occur in the order connect,
\* extract, transform, load, watermark advance, each at most once, the
\* watermark being advanced only after the same run's load succeeded; the
\* run ends DONE or ABORTED; a failure in any stage, the watermark advance
\* included, moves the run to ABORTED and no later stage runs.
C19_AnyFailureAborts ==
    /\ [][\A t \in Tables :
            StepOf(t) =>
                /\ StageStep(t)
                /\ AdvanceFails(t) => result'[t] = "raised"]_vars
    /\ \A t \in Tables : (pc[t] = "START") ~> Ended(t)

\* C19 (amended): as above, except that the failure of the watermark advance
\* is not raised: the run goes on to its end and ends DONE; a failure of
\* connect, extract, transform or load moves the run to ABORTED.
C19_StagesInOrder ==
    /\ [][\A t \in Tables :
            StepOf(t) =>
                /\ StageStep(t)
                /\ AdvanceFails(t) =>
                      pc'[t] = "FINALLY" /\ result'[t] = "ok"]_vars
    /\ \A t \in Tables : (pc[t] = "START") ~> Ended(t)

\* C19 witness: a run whose load succeeded and whose watermark write failed
\* has ended DONE with its connection closed.
C19_Witness ==
    \E t \in Tables :
        /\ AdvanceLost(t) /\ conn[t] = "closed"
        /\ \E d \in Days : dest[t][d] = Parquet(df[t])

\* --------------------------------------------------------- destination
\* the date on which the run of t that has returned wrote its batch
LoadedOn(t, d) ==
    /\ dest[t][d] = Parquet(df[t])
    /\ \A e \in Days \ {d} : dest[t][e] = destAtStart[t][e]

\* C20: the file a load writes is named by layer, table and date alone, and
\* the write replaces it: a run that returned with a batch left, at the
\* location of its load date, that batch and nothing else, also when an
\* earlier run of the same day had written a batch there and the watermark
\* has advanced past that batch.
C20_LaterLoadReplaces ==
    \A t \in Tables :
        (Returned(t) /\ df[t] # {}) => \E d \in Days : LoadedOn(t, d)

\* C20 witness: the second of two incremental runs on one date has returned;
\* the location holds its batch only, the rows the first run wrote there are
\* in no file of the table, and the watermark is at or above each of them.
C20_Witness ==
    \E t \in Tables, d \in Days :
        /\ Returned(t) /\ incr[t] /\ df[t] # {} /\ LoadedOn(t, d)
        /\ destAtStart[t][d].rows # {}
        /\ logAtStart[t].lines # <<>>
        /\ GetWatermarkOf(logAtStart[t], t) = SetMax(destAtStart[t][d].rows)
        /\ GetWatermark(t) = SetMax(df[t])
        /\ \A r \in destAtStart[t][d].rows :
              /\ r <= GetWatermark(t)
              /\ \A e \in Days : r \notin dest[t][e].rows

=============================================================================
